---- MODULE Spec2Model ----
(***************************************************************************)
(* Hyperpenalized ridge regression of the GOES autoregression notebook:    *)
(* ridge (bare solve), tuneridge (empirical-Bayes tuning loop) and fit     *)
(* (sweep over r2 guesses).                                                *)
(*                                                                         *)
(* Numbers.  A float64 is modelled as a record: a finite value is a        *)
(* fixed-point integer v standing for v / Scale, and nan, +inf, -inf are   *)
(* values of their own that follow the IEEE-754 rules numpy applies        *)
(* (x/0 = inf, 0/0 = nan, nan propagates, every comparison with nan is     *)
(* false).  Finite results are rounded to the nearest multiple of          *)
(* 1/Scale.                                                                *)
(*                                                                         *)
(* Matrices are sequences of rows.  The design matrices of the model have  *)
(* mutually orthogonal columns (or, when wider than tall, mutually         *)
(* orthogonal rows), for which the thin SVD is known in closed form.       *)
(***************************************************************************)
EXTENDS Integers, Sequences, FiniteSets, TLC

\* ------------------------------------------------------------------------
\* Bounds of the model
\* ------------------------------------------------------------------------

\* Column scales of a design matrix range over 0..MaxA (in halves).
MaxA == 2
\* Coordinates of the response range over -MaxC..MaxC.
MaxC == 1

\* Resolution of the fixed-point numbers: 1/Scale.
Root == 10^2
Scale == Root * Root

\* ------------------------------------------------------------------------
\* float64 arithmetic
\* ------------------------------------------------------------------------

Fin(v) == [k |-> "fin", v |-> v]
NaN == [k |-> "nan", v |-> 0]
PInf == [k |-> "inf", v |-> 1]
NInf == [k |-> "inf", v |-> -1]

IsFin(lhs) == lhs.k = "fin"
IsNaN(lhs) == lhs.k = "nan"

AbsInt(i) == IF i < 0 THEN -i ELSE i
SgnInt(i) == IF i > 0 THEN 1 ELSE IF i < 0 THEN -1 ELSE 0

\* Sign of a float: -1, 0 or 1 (0 for zero and for nan).
Sgn(lhs) == IF lhs.k = "nan" THEN 0 ELSE SgnInt(lhs.v)

Zero == Fin(0)
One == Fin(Scale)
Num(i) == Fin(i * Scale)

Neg(lhs) == IF lhs.k = "nan" THEN NaN ELSE [k |-> lhs.k, v |-> -lhs.v]

FAdd(lhs, rhs) ==
    IF lhs.k = "nan" \/ rhs.k = "nan" THEN NaN
    ELSE IF lhs.k = "inf" THEN (IF rhs.k = "inf" /\ rhs.v # lhs.v THEN NaN ELSE lhs)
    ELSE IF rhs.k = "inf" THEN rhs
    ELSE Fin(lhs.v + rhs.v)

FSub(lhs, rhs) == FAdd(lhs, Neg(rhs))

\* round(lhs * rhs / Scale) for integers lhs, rhs >= 0, without leaving 32 bits.
MulMag(lhs, rhs) ==
    LET ah == lhs \div Scale
        al == lhs % Scale
        bh == rhs \div Scale
        bl == rhs % Scale
        low == al * bl
    IN  ah * bh * Scale + ah * bl + al * bh
          + (low \div Scale) + (IF 2 * (low % Scale) >= Scale THEN 1 ELSE 0)

FMul(lhs, rhs) ==
    IF lhs.k = "nan" \/ rhs.k = "nan" THEN NaN
    ELSE IF lhs.k = "inf" \/ rhs.k = "inf"
         THEN (IF Sgn(lhs) * Sgn(rhs) = 0 THEN NaN
               ELSE IF Sgn(lhs) * Sgn(rhs) > 0 THEN PInf ELSE NInf)
    ELSE Fin(Sgn(lhs) * Sgn(rhs) * MulMag(AbsInt(lhs.v), AbsInt(rhs.v)))

\* The digits of r * sc / rhs after the point, for 0 <= r < rhs: long division.
RECURSIVE LongDiv(_, _, _)
LongDiv(r, rhs, sc) ==
    IF sc = 1 THEN (IF 2 * r >= rhs THEN 1 ELSE 0)
    ELSE LET t == r * 10
         IN  (t \div rhs) * (sc \div 10) + LongDiv(t % rhs, rhs, sc \div 10)

\* round(lhs * Scale / rhs) for integers lhs >= 0, rhs > 0.
DivMag(lhs, rhs) == (lhs \div rhs) * Scale + LongDiv(lhs % rhs, rhs, Scale)

FDiv(lhs, rhs) ==
    IF lhs.k = "nan" \/ rhs.k = "nan" THEN NaN
    ELSE IF lhs.k = "inf"
         THEN (IF rhs.k = "inf" THEN NaN
               ELSE IF rhs.v < 0 THEN Neg(lhs) ELSE lhs)
    ELSE IF rhs.k = "inf" THEN Zero
    ELSE IF rhs.v = 0
         THEN (IF lhs.v = 0 THEN NaN ELSE IF lhs.v > 0 THEN PInf ELSE NInf)
    ELSE Fin(Sgn(lhs) * Sgn(rhs) * DivMag(AbsInt(lhs.v), AbsInt(rhs.v)))

\* Largest r with r * r <= m, by bisection on lo..hi.
RECURSIVE ISqrt(_, _, _)
ISqrt(m, lo, hi) ==
    IF lo >= hi THEN lo
    ELSE LET mid == (lo + hi + 1) \div 2
         IN  IF mid <= m \div mid THEN ISqrt(m, mid, hi)
             ELSE ISqrt(m, lo, mid - 1)

\* floor(v * Scale / r) for integers v >= 0, r > 0.
Quot(v, r) == (v \div r) * Scale + ((v % r) * Scale) \div r

\* Largest r in lo..hi with r * r <= v * Scale, by bisection.
RECURSIVE Bisect(_, _, _)
Bisect(v, lo, hi) ==
    IF lo >= hi THEN lo
    ELSE LET mid == (lo + hi + 1) \div 2
         IN  IF mid <= Quot(v, mid) THEN Bisect(v, mid, hi)
             ELSE Bisect(v, lo, mid - 1)

\* sqrt(v / Scale) * Scale = sqrt(v * Scale), rounded down.
SqrtMag(v) == Bisect(v, 0, (ISqrt(v, 0, v) + 1) * Root)

\* np.sqrt: nan (with a warning) for a negative argument.
FSqrt(lhs) ==
    IF lhs.k = "nan" THEN NaN
    ELSE IF lhs.k = "inf" THEN (IF lhs.v > 0 THEN PInf ELSE NaN)
    ELSE IF lhs.v < 0 THEN NaN
    ELSE Fin(SqrtMag(lhs.v))

\* lhs < rhs on floats: false whenever either side is nan.
FLt(lhs, rhs) ==
    IF lhs.k = "nan" \/ rhs.k = "nan" THEN FALSE
    ELSE IF lhs.k = "inf" /\ rhs.k = "inf" THEN lhs.v < rhs.v
    ELSE IF lhs.k = "inf" THEN lhs.v < 0
    ELSE IF rhs.k = "inf" THEN rhs.v > 0
    ELSE lhs.v < rhs.v

\* lhs <= rhs on floats: false whenever either side is nan.
FLe(lhs, rhs) == FLt(lhs, rhs) \/ (lhs = rhs /\ lhs.k # "nan")

\* ------------------------------------------------------------------------
\* Vectors and matrices (numpy arrays of float64)
\* ------------------------------------------------------------------------

\* np.sum of a vector.
RECURSIVE SumSeq(_)
SumSeq(w) == IF w = <<>> THEN Zero ELSE FAdd(w[1], SumSeq(Tail(w)))

NRows(m) == Len(m)
NCols(m) == Len(m[1])

\* np.dot(m, w): matrix times vector.
MatVec(m, w) ==
    [i \in 1..NRows(m) |-> SumSeq([j \in 1..Len(w) |-> FMul(m[i][j], w[j])])]

\* np.dot(m.T, w): transposed matrix times vector.
MatTVec(m, w) ==
    [j \in 1..NCols(m) |-> SumSeq([i \in 1..Len(w) |-> FMul(m[i][j], w[i])])]

\* np.sum(w**2)
SumSq(w) == SumSeq([i \in 1..Len(w) |-> FMul(w[i], w[i])])

VecSub(w1, w2) == [i \in 1..Len(w1) |-> FSub(w1[i], w2[i])]

AllFinite(w) == \A i \in 1..Len(w) : IsFin(w[i])

\* Every entry of the matrix is a finite number.
FiniteMatrix(m) == \A i \in 1..NRows(m) : AllFinite(m[i])

\* The identity matrix of order k.
Eye(k) == [i \in 1..k |-> [j \in 1..k |-> IF i = j THEN One ELSE Zero]]

\* Column j of m, and the Euclidean norm of a vector.
Col(m, j) == [i \in 1..NRows(m) |-> m[i][j]]
Norm(w) == FSqrt(SumSq(w))

\* w / c, and the zero vector when c = 0 (a direction of singular value 0:
\* any unit vector completes the basis, and its weight s/(s^2 + f) is 0 or
\* nan whatever it is).
Unit(w, c) == [i \in 1..Len(w) |-> IF c = Zero THEN Zero ELSE FDiv(w[i], c)]

\* Whether the two columns of m have inner product 0.
OrthogonalPair(m) ==
    SumSeq([i \in 1..NRows(m) |-> FMul(m[i][1], m[i][2])]) = Zero

\* The thin SVD of a matrix with two correlated columns of equal norm: the
\* Gram matrix [[g, c], [c, g]] has the eigenvectors (1, 1)/sqrt(2) and
\* (1, -1)/sqrt(2), so these are the rows of vt, s[j] is the norm of
\* x v[j] and u[j] is x v[j] / s[j].
SvdPair(m) ==
    LET c == FDiv(One, FSqrt(Num(2)))
        vt == << <<c, c>>, <<c, Neg(c)>> >>
        w == [j \in 1..2 |-> MatVec(m, vt[j])]
        s == [j \in 1..2 |-> Norm(w[j])]
    IN  [u |-> [i \in 1..NRows(m) |-> [j \in 1..2 |-> Unit(w[j], s[j])[i]]],
         s |-> s,
         vt |-> vt]

\* np.linalg.svd(x, 0), the thin SVD x = u diag(s) vt, of a matrix whose
\* columns are mutually orthogonal (n >= p: s[j] is the norm of column j,
\* u its normalised columns, vt the identity), whose two columns are
\* correlated and of equal norm (SvdPair), or whose rows are orthogonal
\* (n < p: s[i] is the norm of row i, vt its normalised rows, u the
\* identity).
SVD(m) ==
    IF NRows(m) >= NCols(m)
    THEN IF NCols(m) = 2 /\ FiniteMatrix(m) /\ ~OrthogonalPair(m)
         THEN SvdPair(m)
         ELSE LET s == [j \in 1..NCols(m) |-> Norm(Col(m, j))]
              IN  [u |-> [i \in 1..NRows(m) |->
                            [j \in 1..NCols(m) |-> Unit(Col(m, j), s[j])[i]]],
                   s |-> s,
                   vt |-> Eye(NCols(m))]
    ELSE LET s == [i \in 1..NRows(m) |-> Norm(m[i])]
         IN  [u |-> Eye(NRows(m)),
              s |-> s,
              vt |-> [i \in 1..NRows(m) |-> Unit(m[i], s[i])]]

\* Weights that lack the numerator: 1 / (s**2 + f).
ShrinkNoNumerator(s, f) ==
    [j \in 1..Len(s) |-> FDiv(One, FAdd(FMul(s[j], s[j]), f))]

\* g = s / (s**2 + f): the shrinkage weights.
Shrink(s, f) ==
    [j \in 1..Len(s) |-> FDiv(s[j], FAdd(FMul(s[j], s[j]), f))]

\* np.dot(v, np.dot(u.T, y) * g) with v = vt.T: the ridge solution in the
\* factorized basis.
Solve(d, yv, f) ==
    LET g == Shrink(d.s, f)
        uty == MatTVec(d.u, yv)
        w == [j \in 1..Len(g) |-> FMul(uty[j], g[j])]
    IN  MatTVec(d.vt, w)

\* ------------------------------------------------------------------------
\* Program constants
\* ------------------------------------------------------------------------

\* for itr in range(100)
MaxIter == 100

\* The tolerance 1e-4 is 1 / TolDen.
TolDen == 10^4

\* np.sum((bhat1 - bhat)**2) < 1e-4, compared exactly on the fixed-point
\* differences: sum(d^2) / Scale^2 < 1 / TolDen, TolDen dividing Scale^2.  A
\* difference of one or more, or one that is not finite, fails the test
\* (nan < 1e-4 is false).
Converged(b1, b0) ==
    LET d == VecSub(b1, b0)
        RECURSIVE Sq(_)
        Sq(i) == IF i = 0 THEN 0 ELSE d[i].v * d[i].v + Sq(i - 1)
    IN  /\ AllFinite(d)
        /\ \A i \in 1..Len(d) : AbsInt(d[i].v) < Scale
        /\ Sq(Len(d)) < (Scale * Scale) \div TolDen

\* lam = 1.
LamInit == One

\* ------------------------------------------------------------------------
\* Inputs
\* ------------------------------------------------------------------------

\* The three contrasts of four observations: orthogonal, each of mean zero.
Contrast == << <<1, 1, -1, -1>>, <<1, -1, 1, -1>>, <<1, -1, -1, 1>> >>

\* The centered n = 4 design with columns sc[j]/2 * Contrast[j].
Tall(sc) ==
    [i \in 1..4 |-> [j \in 1..Len(sc) |->
        Fin(sc[j] * Contrast[j][i] * (Scale \div 2))]]

\* The centered response with coordinates c on the contrasts.
Resp(c) ==
    [i \in 1..4 |->
        Fin((c[1] * Contrast[1][i] + c[2] * Contrast[2][i]
               + c[3] * Contrast[3][i]) * Scale)]

\* A design with more columns than rows (n = 1, p = 2), and its response.
Wide(sc) == << <<Fin(sc * (Scale \div 2)), Zero>> >>

\* One predictor, or two of which the second may be all zero.
TallDesigns ==
    {Tall(<<s1>>) : s1 \in 0..MaxA}
      \cup {Tall(<<s1, s2>>) : s1 \in 1..MaxA, s2 \in 0..MaxA}

Responses == {Resp(<<c1, c2, c3>>) : c1 \in -MaxC..MaxC, c2 \in 0..MaxC,
                                     c3 \in 0..1}

WideInputs ==
    {[x |-> Wide(s1), y |-> <<Fin(c1 * Scale)>>] :
        s1 \in 0..MaxA, c1 \in -MaxC..MaxC}

\* m with its first entry replaced by v.
Spoil(m, v) == [m EXCEPT ![1] = [m[1] EXCEPT ![1] = v]]

\* Designs that hold a nan or an inf.
NonFiniteDesigns == {Spoil(Tall(<<1>>), NaN), Spoil(Tall(<<1, 1>>), PInf)}

\* One predictor on a larger scale (singular value 6): the fits at
\* penalties 1 and 0 then differ by less than the tolerance.
LargeDesigns == {Tall(<<6>>)}

Inputs == {[x |-> xx, y |-> yy] :
              xx \in TallDesigns \cup NonFiniteDesigns \cup LargeDesigns,
              yy \in Responses}
             \cup WideInputs

\* The data of the sweep: two predictors, the second possibly all zero.
FitInputs ==
    {[x |-> Tall(<<s1, s2>>), y |-> yy] :
        s1 \in 1..MaxA, s2 \in 0..1, yy \in Responses}

\* The design in other units: every entry doubled.
Rescaled(m) ==
    [i \in 1..NRows(m) |-> [j \in 1..NCols(m) |-> FMul(Num(2), m[i][j])]]

\* The matrices fit may be called on while the globals xtx and q are those
\* of the global design g: g itself, or another matrix of the same shape.
FitArgs(g) == {g, Rescaled(g)}

\* r2 as the callers pass it: a Python float (the literals of fit) or a
\* numpy float64 (np.var(Ey) / (np.var(Ey) + sig**2) in test_tuneridge1).
PyFloat(v) == [v |-> Fin(v), np |-> FALSE]
NpFloat(v) == [v |-> Fin(v), np |-> TRUE]

\* for r2 in [0.01, 0.1, 0.25, 0.5, 0.75, 0.9]
R2List ==
    << PyFloat(Scale \div 100), PyFloat(Scale \div 10), PyFloat(Scale \div 4),
       PyFloat(Scale \div 2), PyFloat(3 * (Scale \div 4)),
       PyFloat(9 * (Scale \div 10)) >>

\* The guesses a direct caller may pass, valid or not: 0, 0.1, 0.5, 1 and
\* 1.5 (a negative guess takes the path of 1.5: 1/r2 - 1 < 0).
R2Inputs ==
    { PyFloat(0), NpFloat(0), PyFloat(Scale \div 10), NpFloat(Scale \div 2),
      PyFloat(Scale), PyFloat(3 * (Scale \div 2)) }

\* The penalties of a bare ridge solve.
Penalties == {Zero, Fin(Scale \div 2), One, Num(2), Neg(One)}

\* At most this many bare ridge solves are made on one design.
MaxRidge == 2

\* np.random.permutation(k): the permutations of 1..k.
Perms(k) == {pi \in [1..k -> 1..k] : \A i, j \in 1..k : pi[i] = pi[j] => i = j}

\* ------------------------------------------------------------------------
\* State
\* ------------------------------------------------------------------------

VARIABLES
    mode,       \* the caller: "tune" (tuneridge called directly), "fit"
                \* (the sweep over R2List) or "ridge" (bare ridge solves)
    gx, gy,     \* the notebook's global design matrix (of which xtx is the
                \* Gram matrix and q the width) and response
    randomize,  \* fit's argument
    fpc,        \* position of the caller
    idx,        \* fit: how many entries of R2List have been fitted
    stat,       \* fit: the chi-squared statistic and p-value last computed
    plotted,    \* fit: the (r2, lam, b) last plotted
    x, y, r2,   \* the arguments of tuneridge / ridge
    fpen,       \* the penalty argument f of ridge
    pc,         \* position inside tuneridge
    a, b,       \* the hyperpenalty parameters
    dec,        \* u, s, vt of tuneridge
    lam, sigma2, bhat, bhat1,
    itr,        \* the index the for loop draws next
    ret,        \* the value returned by tuneridge / ridge
    err,        \* the exception raised, if any
    outcome,    \* how the loop of tuneridge ended
    svdCount,   \* factorizations made by the current tuneridge invocation
    fitCount,   \* fit(lam) calls of the current tuneridge invocation
    svdTotal,   \* factorizations made since the start
    calls,      \* tuneridge and ridge calls made since the start
    sim,        \* test_tuneridge1: its arguments, locals and return value
    xc, yc,     \* flip: the two arrays of loadings, changed in place
    fj,         \* flip: how many columns the loop has visited
    fret,       \* flip: the pair returned
    X, yobs,    \* the NHANES notebook's global X and y
    iiSplit,    \* goodness_of_fit: ii, the permutation of the row indices
    X1, y1,     \* goodness_of_fit: the training rows and responses
    X2, y2,     \* goodness_of_fit: the validation rows and responses
    gpc,        \* goodness_of_fit: the statement to execute next
    land_area,  \* the plants notebook's global land_area
    geo,        \* its other geophysical constants
    ecdf,       \* dd["ecdf"]: per species, the eCDF on the grid dgr
    jdraw,      \* the L-function cell: np.random.choice(dd.shape[0], 5)
    lpos,       \* the L-function cell: how many curves have been plotted
    lcurve      \* the L-function cell: the curve last plotted

\* The variables of the other programs of the repository.
simVars == <<sim>>
flipVars == <<xc, yc, fj, fret>>
splitVars == <<X, yobs, iiSplit, X1, y1, X2, y2, gpc>>
geoVars == <<land_area, geo, ecdf, jdraw, lpos, lcurve>>
nbVars == <<simVars, flipVars, splitVars, geoVars>>

\* The variables of ridge, tuneridge and fit.
ridgeVars == <<mode, gx, gy, randomize, fpc, idx, stat, plotted, x, y, r2,
               fpen, pc, a, b, dec, lam, sigma2, bhat, bhat1, itr, ret, err,
               outcome, svdCount, fitCount, svdTotal, calls>>

callerVars == <<mode, gx, gy, randomize, fpc, idx, stat, plotted>>
argVars == <<x, y, r2, fpen>>
tuneVars == <<pc, a, b, dec, lam, sigma2, bhat, bhat1, itr, outcome,
              svdCount, fitCount>>
vars == <<mode, gx, gy, randomize, fpc, idx, stat, plotted, x, y, r2, fpen,
          pc, a, b, dec, lam, sigma2, bhat, bhat1, itr, ret, err, outcome,
          svdCount, fitCount, svdTotal, calls, sim, xc, yc, fj, fret,
          X, yobs, iiSplit, X1, y1, X2, y2, gpc,
          land_area, geo, ecdf, jdraw, lpos, lcurve>>

\* An unbound name, and the absence of a value.
None == [k |-> "none", v |-> 0]

\* goodness_of_fit is not running.
NoSplit ==
    /\ X = None /\ yobs = None /\ iiSplit = None
    /\ X1 = None /\ y1 = None /\ X2 = None /\ y2 = None
    /\ gpc = "idle"

\* The plants notebook is not running.
NoGeo ==
    /\ land_area = None /\ geo = None /\ ecdf = None
    /\ jdraw = None /\ lpos = 0 /\ lcurve = None

\* The locals of a tuneridge frame that has not run yet.
FreshFrame ==
    /\ a = None /\ b = None /\ dec = None
    /\ lam = None /\ sigma2 = None /\ bhat = None /\ bhat1 = None
    /\ itr = 0 /\ outcome = "ITERATING"
    /\ svdCount = 0 /\ fitCount = 0

FreshFrameNext ==
    /\ a' = None /\ b' = None /\ dec' = None
    /\ lam' = None /\ sigma2' = None /\ bhat' = None /\ bhat1' = None
    /\ itr' = 0 /\ outcome' = "ITERATING"
    /\ svdCount' = 0 /\ fitCount' = 0

Init ==
    /\ mode \in {"tune", "fit", "ridge"}
    /\ \E inp \in (IF mode = "fit" THEN FitInputs ELSE Inputs) :
          gx = inp.x /\ gy = inp.y
    /\ randomize \in BOOLEAN
    /\ (mode # "fit" => randomize = FALSE)
    /\ idx = 0 /\ stat = None /\ plotted = None
    /\ x = (IF mode = "fit" THEN None ELSE gx)
    /\ y = (IF mode = "fit" THEN None ELSE gy)
    /\ IF mode = "tune" THEN r2 \in R2Inputs ELSE r2 = None
    /\ fpen = None
    /\ fpc = (IF mode = "tune" THEN "wait" ELSE "enter")
    /\ pc = (IF mode = "tune" THEN "hyper" ELSE "idle")
    /\ FreshFrame
    /\ ret = None /\ err = "none"
    /\ svdTotal = 0
    /\ calls = (IF mode = "tune" THEN 1 ELSE 0)
    /\ sim = None
    /\ xc = None /\ yc = None /\ fj = 0 /\ fret = None
    /\ NoSplit
    /\ NoGeo

\* ------------------------------------------------------------------------
\* tuneridge(x, y, r2)
\* ------------------------------------------------------------------------

\* 1 / r2: Python raises ZeroDivisionError on a Python float 0.0; numpy
\* returns inf (with a warning) on a float64.
RaisesZeroDivision(r) == ~r.np /\ r.v = Zero

\* b = 1 / np.sqrt(1/r2 - 1)
HyperB(r) == FDiv(One, FSqrt(FSub(FDiv(One, r.v), One)))

\* a = p / 2
HyperA(p) == Fin(p * (Scale \div 2))

\* n, p = x.shape; a = p / 2; b = 1 / np.sqrt(1/r2 - 1)
Hyper ==
    /\ pc = "hyper"
    /\ IF RaisesZeroDivision(r2)
       THEN /\ pc' = "raised"
            /\ err' = "ZeroDivisionError"
            /\ UNCHANGED <<a, b>>
       ELSE /\ pc' = "svd"
            /\ a' = HyperA(NCols(x))
            /\ b' = HyperB(r2)
            /\ UNCHANGED err
    /\ UNCHANGED <<nbVars, callerVars, argVars, dec, lam, sigma2, bhat, bhat1, itr,
                   ret, outcome, svdCount, fitCount, svdTotal, calls>>

\* An svd that accepts any matrix.
SvdNeverRaises(m) == FALSE

\* np.linalg.svd raises LinAlgError("SVD did not converge") on a matrix that
\* holds a nan or an inf: LAPACK reports failure and numpy raises.
SvdRaises(m) == ~FiniteMatrix(m)

\* A factorization cached per design matrix: only the first request
\* computes it.
SvdCallsCached(total) == IF total = 0 THEN 1 ELSE 0

\* The np.linalg.svd calls made by one execution of
\* u, s, vt = np.linalg.svd(x, 0), given how many were made before.
SvdCalls(total) == 1

\* u, s, vt = np.linalg.svd(x, 0); v = vt.T
Factorize ==
    /\ pc = "svd"
    /\ IF SvdRaises(x)
       THEN /\ pc' = "raised"
            /\ err' = "LinAlgError"
            /\ UNCHANGED <<dec, svdCount, svdTotal>>
       ELSE /\ pc' = "first"
            /\ dec' = SVD(x)
            /\ svdCount' = svdCount + SvdCalls(svdTotal)
            /\ svdTotal' = svdTotal + SvdCalls(svdTotal)
            /\ UNCHANGED err
    /\ UNCHANGED <<nbVars, callerVars, argVars, a, b, lam, sigma2, bhat, bhat1, itr,
                   ret, outcome, fitCount, calls>>

\* A closure that factorizes x again on every call, as ridge does.
SvdPerFitAsRidge == SvdCalls(0)

\* The number of factorizations one call of the closure fit(lam) makes: it
\* reads the u, s, v of the enclosing call.
SvdPerFit == 0

\* def fit(lam): the closure over u, s, v and y.
Fit(f) == Solve(dec, y, f)

\* A closure that builds the denominators in place: s **= 2; s += lam.
DecAfterFitInPlace(d, f) ==
    [d EXCEPT !.s = [j \in 1..Len(d.s) |-> FAdd(FMul(d.s[j], d.s[j]), f)]]

\* What a call fit(f) leaves in u, s, vt: s**2 + lam and the products are
\* new arrays, nothing is written to the captured ones.
DecAfterFit(d, f) == d

\* A warm start: the first fit at the penalty the previous call returned.
FirstFitWarm ==
    /\ pc = "first"
    /\ lam' = (IF "lam" \in DOMAIN ret THEN ret.lam ELSE LamInit)
    /\ bhat' = Fit(lam')
    /\ dec' = DecAfterFit(dec, lam')
    /\ fitCount' = fitCount + 1
    /\ svdCount' = svdCount + SvdPerFit
    /\ svdTotal' = svdTotal + SvdPerFit
    /\ pc' = "loop"
    /\ UNCHANGED <<nbVars, callerVars, argVars, a, b, sigma2, bhat1, itr,
                   ret, err, outcome, calls>>

\* A first fit that is not the ridge solution at the starting penalty:
\* bhat = fit(0.) while lam = 1.
FirstFitUnpenalized ==
    /\ pc = "first"
    /\ lam' = LamInit
    /\ bhat' = Fit(Zero)
    /\ dec' = DecAfterFit(dec, Zero)
    /\ fitCount' = fitCount + 1
    /\ svdCount' = svdCount + SvdPerFit
    /\ svdTotal' = svdTotal + SvdPerFit
    /\ pc' = "loop"
    /\ UNCHANGED <<nbVars, callerVars, argVars, a, b, sigma2, bhat1, itr,
                   ret, err, outcome, calls>>

\* lam = 1.; bhat = fit(lam)
FirstFit ==
    /\ pc = "first"
    /\ lam' = LamInit
    /\ bhat' = Fit(LamInit)
    /\ dec' = DecAfterFit(dec, LamInit)
    /\ fitCount' = fitCount + 1
    /\ svdCount' = svdCount + SvdPerFit
    /\ svdTotal' = svdTotal + SvdPerFit
    /\ pc' = "loop"
    /\ UNCHANGED <<nbVars, callerVars, argVars, a, b, sigma2, bhat1, itr,
                   ret, err, outcome, calls>>

\* A loop without the cap: while True.
LoopUncapped(i) == TRUE

\* for itr in range(100): whether the loop draws another index.
LoopContinues(i) == i < MaxIter

\* resid = y - np.dot(x, bhat); rss = np.sum(resid**2)
Rss(bh) == SumSq(VecSub(y, MatVec(x, bh)))

\* bss = np.sum(bhat**2)
Bss(bh) == SumSq(bh)

\* Equation 21: sigma2 = (rss + lam*bss) / (n + p + 2)
Sigma2Update(bh, l) ==
    FDiv(FAdd(Rss(bh), FMul(l, Bss(bh))), Num(NRows(x) + NCols(x) + 2))

\* Equation 24: lam = (p + 2*a - 2) / (bss/sigma2 + 2*b)
LamUpdate(bh, s2) ==
    FDiv(FSub(FAdd(Num(NCols(x)), FMul(Num(2), a)), Num(2)),
         FAdd(FDiv(Bss(bh), s2), FMul(Num(2), b)))

\* A pass that forgets bhat = bhat1.
BhatStale(bh, bh1) == bh

\* The coefficients bound to bhat when the pass ends: the break leaves bhat
\* as it was, and otherwise bhat = bhat1.
BhatAfter(bh, bh1) == IF Converged(bh1, bh) THEN bh ELSE bh1

\* A pass that updates the penalty first, from the previous sigma2 (1 when
\* there is none yet), and then sigma2 with the updated penalty.
IterateLamFirst ==
    /\ pc = "loop"
    /\ LoopContinues(itr)
    /\ LET l1 == LamUpdate(bhat, IF sigma2 = None THEN One ELSE sigma2)
           s2 == Sigma2Update(bhat, l1)
           b1 == Fit(l1)
       IN  /\ sigma2' = s2
           /\ lam' = l1
           /\ bhat1' = b1
           /\ dec' = DecAfterFit(dec, l1)
           /\ bhat' = BhatAfter(bhat, b1)
           /\ IF Converged(b1, bhat)
              THEN /\ pc' = "return"
                   /\ outcome' = "CONVERGED"
                   /\ itr' = itr
              ELSE /\ pc' = "loop"
                   /\ outcome' = "ITERATING"
                   /\ itr' = itr + 1
    /\ fitCount' = fitCount + 1
    /\ svdCount' = svdCount + SvdPerFit
    /\ svdTotal' = svdTotal + SvdPerFit
    /\ UNCHANGED <<nbVars, callerVars, argVars, a, b, ret, err, calls>>

\* One pass of the loop body.
Iterate ==
    /\ pc = "loop"
    /\ LoopContinues(itr)
    /\ LET s2 == Sigma2Update(bhat, lam)
           l1 == LamUpdate(bhat, s2)
           b1 == Fit(l1)
       IN  /\ sigma2' = s2
           /\ lam' = l1
           /\ bhat1' = b1
           /\ dec' = DecAfterFit(dec, l1)
           /\ bhat' = BhatAfter(bhat, b1)
           /\ IF Converged(b1, bhat)
              THEN /\ pc' = "return"
                   /\ outcome' = "CONVERGED"
                   /\ itr' = itr
              ELSE /\ pc' = "loop"
                   /\ outcome' = "ITERATING"
                   /\ itr' = itr + 1
    /\ fitCount' = fitCount + 1
    /\ svdCount' = svdCount + SvdPerFit
    /\ svdTotal' = svdTotal + SvdPerFit
    /\ UNCHANGED <<nbVars, callerVars, argVars, a, b, ret, err, calls>>

\* range(100) is used up: the loop ends without a break.
LoopEnd ==
    /\ pc = "loop"
    /\ ~LoopContinues(itr)
    /\ pc' = "return"
    /\ outcome' = "EXHAUSTED"
    /\ UNCHANGED <<nbVars, callerVars, argVars, a, b, dec, lam, sigma2, bhat, bhat1,
                   itr, ret, err, svdCount, fitCount, svdTotal, calls>>

\* return bhat, lam, sigma2
Result == [bhat |-> bhat, lam |-> lam, sigma2 |-> sigma2]

\* A return that first rebinds bhat to the refit.
ReturnRefit ==
    /\ pc = "return"
    /\ bhat' = bhat1
    /\ ret' = [bhat |-> bhat1, lam |-> lam, sigma2 |-> sigma2]
    /\ pc' = "done"
    /\ UNCHANGED <<nbVars, callerVars, argVars, a, b, dec, lam, sigma2, bhat1,
                   itr, err, outcome, svdCount, fitCount, svdTotal, calls>>

Return ==
    /\ pc = "return"
    /\ ret' = Result
    /\ pc' = "done"
    /\ UNCHANGED <<nbVars, callerVars, argVars, a, b, dec, lam, sigma2, bhat, bhat1,
                   itr, err, outcome, svdCount, fitCount, svdTotal, calls>>

TuneStep == Hyper \/ Factorize \/ FirstFit \/ Iterate \/ LoopEnd \/ Return

\* ------------------------------------------------------------------------
\* ridge(x, y, f)
\* ------------------------------------------------------------------------

\* u, s, vt = np.linalg.svd(x, 0); g = s / (s**2 + f);
\* b = np.dot(v, np.dot(u.T, y) * g)
Ridge(m, yv, f) == Solve(SVD(m), yv, f)

\* A bare ridge solve on the session's data, at any penalty.
RidgeCall ==
    /\ mode = "ridge"
    /\ fpc # "raised"
    /\ calls < MaxRidge
    /\ \E f \in Penalties :
          /\ fpen' = f
          /\ IF SvdRaises(x)
             THEN /\ err' = "LinAlgError"
                  /\ fpc' = "raised"
                  /\ UNCHANGED <<ret, svdTotal>>
             ELSE /\ ret' = [b |-> Ridge(x, y, f)]
                  /\ svdTotal' = svdTotal + SvdCalls(svdTotal)
                  /\ fpc' = "called"
                  /\ UNCHANGED err
    /\ calls' = calls + 1
    /\ UNCHANGED <<nbVars, mode, gx, gy, randomize, idx, stat, plotted, x, y, r2,
                   tuneVars>>

\* ------------------------------------------------------------------------
\* fit(x, y, randomize), called on the global y and on a design of the shape
\* of the global x
\* ------------------------------------------------------------------------

\* xtx = np.dot(x.T, x), computed once from the global x.
XtX == [i \in 1..NCols(gx) |-> MatTVec(gx, Col(gx, i))]

\* q, the number of columns of the global x.
Q == NCols(gx)

\* A solve that never reports a singular matrix.
NeverSingular(h) == FALSE

\* Whether np.linalg.solve(h, .) raises LinAlgError("Singular matrix") for
\* a diagonal h: an exact zero on the diagonal.
Singular(h) == \E i \in 1..Len(h) : h[i][i] = Zero

\* np.linalg.solve(h, m) for a diagonal h (nan when h holds nan).
SolveDiag(h, m) ==
    [i \in 1..Len(m) |-> [j \in 1..Len(m[i]) |-> FDiv(m[i][j], h[i][i])]]

Transpose(m) == [j \in 1..NCols(m) |-> Col(m, j)]

\* H = xtx + lam*np.eye(q)
HMat(l) ==
    [i \in 1..Q |-> [j \in 1..Q |-> FAdd(XtX[i][j], FMul(l, Eye(Q)[i][j]))]]

\* V = s2 * np.linalg.solve(H, np.linalg.solve(H, xtx).T)
VMat(l, s2) ==
    LET inner == SolveDiag(HMat(l), Transpose(SolveDiag(HMat(l), XtX)))
    IN  [i \in 1..Q |-> [j \in 1..Q |-> FMul(s2, inner[i][j])]]

\* cs = np.dot(b, np.linalg.solve(V, b))
ChiSq(bv, l, s2) ==
    LET vm == VMat(l, s2)
        sol == [i \in 1..Len(bv) |-> FDiv(bv[i], vm[i][i])]
    IN  SumSeq([i \in 1..Len(bv) |-> FMul(bv[i], sol[i])])

\* An entry that permutes the caller's array in place: np.random.shuffle(y).
FitEnterInPlace ==
    /\ mode = "fit"
    /\ fpc = "enter"
    /\ x' \in FitArgs(gx)
    /\ IF randomize
       THEN \E ii \in Perms(Len(gy)) :
               /\ y' = [i \in 1..Len(gy) |-> gy[ii[i]]]
               /\ gy' = y'
       ELSE y' = gy /\ gy' = gy
    /\ fpc' = "call"
    /\ UNCHANGED <<nbVars, mode, gx, randomize, idx, stat, plotted, r2, fpen,
                   tuneVars, ret, err, svdTotal, calls>>

\* if randomize: ii = np.random.permutation(len(y)); y = y[ii]
\* (y[ii] is a new array bound to the local name y).
FitEnter ==
    /\ mode = "fit"
    /\ fpc = "enter"
    /\ x' \in FitArgs(gx)
    /\ IF randomize
       THEN \E ii \in Perms(Len(gy)) : y' = [i \in 1..Len(gy) |-> gy[ii[i]]]
       ELSE y' = gy
    /\ fpc' = "call"
    /\ UNCHANGED <<nbVars, mode, gx, gy, randomize, idx, stat, plotted, r2, fpen,
                   tuneVars, ret, err, svdTotal, calls>>

\* A sweep that draws a new permutation of the response for every guess.
FitCallReshuffle ==
    /\ mode = "fit"
    /\ fpc = "call"
    /\ idx < Len(R2List)
    /\ r2' = R2List[idx + 1]
    /\ IF randomize
       THEN \E ii \in Perms(Len(y)) : y' = [i \in 1..Len(y) |-> y[ii[i]]]
       ELSE y' = y
    /\ pc' = "hyper"
    /\ FreshFrameNext
    /\ calls' = calls + 1
    /\ fpc' = "wait"
    /\ UNCHANGED <<nbVars, mode, gx, gy, randomize, idx, stat, plotted, x,
                   fpen, ret, err, svdTotal>>

\* for r2 in [...]: b, lam, s2 = tuneridge(x, y, r2) -- the call.
FitCall ==
    /\ mode = "fit"
    /\ fpc = "call"
    /\ idx < Len(R2List)
    /\ r2' = R2List[idx + 1]
    /\ pc' = "hyper"
    /\ FreshFrameNext
    /\ calls' = calls + 1
    /\ fpc' = "wait"
    /\ UNCHANGED <<nbVars, mode, gx, gy, randomize, idx, stat, plotted, x, y, fpen,
                   ret, err, svdTotal>>

\* The rest of the loop body, once tuneridge has returned: H, V, cs, pv and
\* the plot.  pv = 1 - chi2(len(b)).cdf(cs) is kept as the term it is.
FitStats ==
    /\ mode = "fit"
    /\ fpc = "wait"
    /\ pc = "done"
    /\ pc' = "idle"
    /\ IF Singular(HMat(ret.lam)) \/ Singular(VMat(ret.lam, ret.sigma2))
       THEN /\ err' = "LinAlgError"
            /\ fpc' = "raised"
            /\ UNCHANGED <<idx, stat, plotted>>
       ELSE /\ stat' = [cs |-> ChiSq(ret.bhat, ret.lam, ret.sigma2),
                        df |-> Len(ret.bhat)]
            /\ plotted' = [r2 |-> r2, lam |-> ret.lam, b |-> ret.bhat]
            /\ idx' = idx + 1
            /\ fpc' = "call"
            /\ UNCHANGED err
    /\ UNCHANGED <<nbVars, mode, gx, gy, randomize, x, y, r2, fpen, a, b, dec, lam,
                   sigma2, bhat, bhat1, itr, ret, outcome, svdCount,
                   fitCount, svdTotal, calls>>

\* The list of guesses is used up: fit returns.
FitExit ==
    /\ mode = "fit"
    /\ fpc = "call"
    /\ idx = Len(R2List)
    /\ fpc' = "done"
    /\ UNCHANGED <<nbVars, mode, gx, gy, randomize, idx, stat, plotted, argVars,
                   tuneVars, ret, err, svdTotal, calls>>

\* ------------------------------------------------------------------------
\* The program
\* ------------------------------------------------------------------------

Next == TuneStep \/ RidgeCall \/ FitEnter \/ FitCall \/ FitStats \/ FitExit

Spec == Init /\ [][Next]_vars

\* ------------------------------------------------------------------------
\* The significance computation of fit (H, V, cs, pv) applied to any tuning
\* result
\* ------------------------------------------------------------------------

\* Penalties and variances a tuning result may hold.
SigPenalties == {Zero, Fin(Scale \div 2), One, NaN}
SigVariances == {Zero, Fin(Scale \div 2), One}

\* Coefficient vectors of length k with coordinates 0, 1 or -1.
SigCoefficients(k) ==
    {[j \in 1..k |-> Num(c[j])] : c \in [1..k -> {-1, 0, 1}]}

\* fit is about to execute H = xtx + lam*np.eye(q) for the first guess of
\* the sweep: tuneridge has just returned (b, lam, s2).
SigInit ==
    /\ mode = "fit"
    /\ gx \in TallDesigns
    /\ gy = Resp(<<1, 0, 0>>)
    /\ randomize = FALSE
    /\ x = gx /\ y = gy
    /\ fpen = None
    /\ fpc = "wait" /\ idx = 0 /\ stat = None /\ plotted = None
    /\ r2 = R2List[1]
    /\ pc = "done"
    /\ a = HyperA(NCols(gx)) /\ b = HyperB(R2List[1])
    /\ dec = SVD(gx)
    /\ lam \in SigPenalties
    /\ sigma2 \in SigVariances
    /\ bhat \in SigCoefficients(NCols(gx))
    /\ bhat1 = bhat
    /\ itr = 1 /\ outcome = "CONVERGED"
    /\ ret = [bhat |-> bhat, lam |-> lam, sigma2 |-> sigma2]
    /\ err = "none"
    /\ svdCount = 1 /\ fitCount = 3 /\ svdTotal = 1 /\ calls = 1
    /\ sim = None
    /\ xc = None /\ yc = None /\ fj = 0 /\ fret = None
    /\ NoSplit
    /\ NoGeo

SigNext == FitStats

SigSpec == SigInit /\ [][SigNext]_vars

\* ------------------------------------------------------------------------
\* test_tuneridge1(n, p, r, sig): the simulation harness
\* ------------------------------------------------------------------------

\* np.random.normal(size=(4, 2)): draws whose two columns are different
\* contrasts (entries 1 and -1).
NormalDraws ==
    {[i \in 1..4 |-> <<Num(Contrast[c[1]][i]), Num(Contrast[c[2]][i])>>] :
        c \in {<<1, 2>>, <<2, 3>>, <<3, 1>>}}

\* np.random.normal(size=4): draws with entries -1, 0 and 1.
NoiseDraws == {[i \in 1..4 |-> Num(e[i])] : e \in [1..4 -> {-1, 0, 1}]}

\* The arguments of the harness: n = 4 observations, p = 2 predictors,
\* r = 0, 0.5 or 1 and sig = 1 or 2.
SimArgs ==
    {[n |-> 4, p |-> 2, r |-> rr, sig |-> sg, b |-> None, Ey |-> None,
      lam_opt |-> None, out |-> None] :
        rr \in {Zero, Fin(Scale \div 2), One}, sg \in {1, 2}}

\* for j in range(1, p): x[:, j] = r*x[:, j-1] + np.sqrt(1-r**2)*x[:, j]
\* (columns numbered from 1 here: j runs from 2 to p).
RECURSIVE Mix(_, _, _)
Mix(m, r, j) ==
    IF j > NCols(m) THEN m
    ELSE Mix([i \in 1..NRows(m) |->
                 [m[i] EXCEPT ![j] =
                     FAdd(FMul(r, m[i][j - 1]),
                          FMul(FSqrt(FSub(One, FMul(r, r))), m[i][j]))]],
             r, j + 1)

\* b = np.zeros(p); b[0] = 1; b[1] = -1
TrueCoef(p) ==
    [j \in 1..p |-> IF j = 1 THEN One ELSE IF j = 2 THEN Neg(One) ELSE Zero]

\* np.var(w): the mean of the squared deviations from the mean.
Var(w) ==
    LET mu == FDiv(SumSeq(w), Num(Len(w)))
    IN  FDiv(SumSq([i \in 1..Len(w) |-> FSub(w[i], mu)]), Num(Len(w)))

\* A guess computed with the wrong sign: var / (var - sig**2).
R2Miscomputed(ey, sig) ==
    [v |-> FDiv(Var(ey), FSub(Var(ey), Num(sig * sig))), np |-> TRUE]

\* r2 = np.var(Ey) / (np.var(Ey) + sig**2), a numpy float64.
R2True(ey, sig) ==
    [v |-> FDiv(Var(ey), FAdd(Var(ey), Num(sig * sig))), np |-> TRUE]

\* covx = r**np.abs(np.subtract.outer(ii, ii)) for p = 2.
Covx(r) == << <<One, r>>, <<r, One>> >>

\* The determinant of a 2 x 2 matrix.
Det2(h) == FSub(FMul(h[1][1], h[2][2]), FMul(h[1][2], h[2][1]))

\* np.linalg.inv of a 2 x 2 matrix (LinAlgError when the determinant is 0).
Inv2(h) ==
    << <<FDiv(h[2][2], Det2(h)), FDiv(Neg(h[1][2]), Det2(h))>>,
       <<FDiv(Neg(h[2][1]), Det2(h)), FDiv(h[1][1], Det2(h))>> >>

\* lam_opt = sig**2 * np.trace(np.linalg.inv(covx))
\*             / np.dot(b, np.linalg.solve(covx, b))
LamOpt(r, sig, bv) ==
    LET inv == Inv2(Covx(r))
        sol == MatVec(inv, bv)
    IN  FDiv(FMul(Num(sig * sig), FAdd(inv[1][1], inv[2][2])),
             SumSeq([j \in 1..2 |-> FMul(bv[j], sol[j])]))

\* The body of test_tuneridge1 up to the call of tuneridge.
SimCall ==
    /\ mode = "sim"
    /\ fpc = "enter"
    /\ \E z \in NormalDraws, e \in NoiseDraws :
          LET xx == Mix(z, sim.r, 2)
              bb == TrueCoef(sim.p)
              ey == MatVec(xx, bb)
              yy == [i \in 1..sim.n |->
                        FAdd(ey[i], FMul(Num(sim.sig), e[i]))]
          IN  IF Det2(Covx(sim.r)) = Zero
              THEN /\ err' = "LinAlgError"
                   /\ fpc' = "raised"
                   /\ sim' = [sim EXCEPT !.b = bb, !.Ey = ey]
                   /\ x' = xx /\ y' = yy /\ r2' = R2True(ey, sim.sig)
                   /\ UNCHANGED <<tuneVars, calls>>
              ELSE /\ x' = xx /\ y' = yy /\ r2' = R2True(ey, sim.sig)
                   /\ sim' = [sim EXCEPT !.b = bb, !.Ey = ey,
                                         !.lam_opt = LamOpt(sim.r, sim.sig, bb)]
                   /\ pc' = "hyper"
                   /\ FreshFrameNext
                   /\ calls' = calls + 1
                   /\ fpc' = "wait"
                   /\ UNCHANGED err
    /\ UNCHANGED <<flipVars, splitVars, geoVars, mode, gx, gy, randomize, idx, stat, plotted,
                   fpen, ret, svdTotal>>

\* bhat, lam, sigma2 = tuneridge(x, y, r2) has returned:
\* return lam, lam_opt, r2, bhat
SimReturn ==
    /\ mode = "sim"
    /\ fpc = "wait"
    /\ pc = "done"
    /\ sim' = [sim EXCEPT !.out = [lam |-> ret.lam, lam_opt |-> sim.lam_opt,
                                   r2 |-> r2, bhat |-> ret.bhat]]
    /\ fpc' = "done"
    /\ pc' = "idle"
    /\ UNCHANGED <<flipVars, splitVars, geoVars, mode, gx, gy, randomize, idx, stat, plotted,
                   argVars, a, b, dec, lam, sigma2, bhat, bhat1, itr, outcome,
                   svdCount, fitCount, ret, err, svdTotal, calls>>

SimInit ==
    /\ mode = "sim"
    /\ sim \in SimArgs
    /\ gx = None /\ gy = None /\ randomize = FALSE
    /\ idx = 0 /\ stat = None /\ plotted = None
    /\ x = None /\ y = None /\ r2 = None /\ fpen = None
    /\ fpc = "enter" /\ pc = "idle"
    /\ FreshFrame
    /\ ret = None /\ err = "none"
    /\ svdTotal = 0 /\ calls = 0
    /\ xc = None /\ yc = None /\ fj = 0 /\ fret = None
    /\ NoSplit
    /\ NoGeo

SimNext == SimCall \/ TuneStep \/ SimReturn

SimSpec == SimInit /\ [][SimNext]_vars

\* ------------------------------------------------------------------------
\* flip(xc, yc): the signs of the CCA loadings
\* ------------------------------------------------------------------------

\* Loadings with entries -1, 0 and 1: rows x cols matrices.
Loadings(rows, cols) ==
    {[i \in 1..rows |-> [c \in 1..cols |-> Num(e[i][c])]] :
        e \in [1..rows -> [1..cols -> {-1, 0, 1}]]}

\* The number of entries of w for which the test holds: (w > 0).sum().
CountPos(w) == Cardinality({i \in 1..Len(w) : FLt(Zero, w[i])})

\* (xc[:, j] > 0).mean() + (yc[:, j] > 0).mean() < 1, the two means being
\* the counts over the numbers of rows (compared as exact fractions).
MostlyNotPositive(m1, m2, c) ==
    CountPos(Col(m1, c)) * NRows(m2) + CountPos(Col(m2, c)) * NRows(m1)
        < NRows(m1) * NRows(m2)

\* m[:, c] *= -1
Negated(m, c) ==
    [i \in 1..NRows(m) |-> [m[i] EXCEPT ![c] = FMul(m[i][c], Neg(One))]]

\* One pass of for j in range(xc.shape[1]).
FlipStep ==
    /\ mode = "flip"
    /\ fret = None
    /\ fj < NCols(xc)
    /\ IF MostlyNotPositive(xc, yc, fj + 1)
       THEN xc' = Negated(xc, fj + 1) /\ yc' = Negated(yc, fj + 1)
       ELSE UNCHANGED <<xc, yc>>
    /\ fj' = fj + 1
    /\ UNCHANGED <<ridgeVars, simVars, splitVars, geoVars, fret>>

\* return xc, yc
FlipReturn ==
    /\ mode = "flip"
    /\ fret = None
    /\ fj = NCols(xc)
    /\ fret' = [xc |-> xc, yc |-> yc]
    /\ UNCHANGED <<ridgeVars, simVars, splitVars, geoVars, xc, yc, fj>>

\* The call flip(xc, yc) on loadings of two components: two rows of x
\* loadings and one row of y loadings.
FlipInit ==
    /\ mode = "flip"
    /\ xc \in Loadings(2, 2)
    /\ yc \in Loadings(1, 2)
    /\ fj = 0 /\ fret = None
    /\ sim = None
    /\ NoSplit
    /\ NoGeo
    /\ gx = None /\ gy = None /\ randomize = FALSE
    /\ idx = 0 /\ stat = None /\ plotted = None
    /\ x = None /\ y = None /\ r2 = None /\ fpen = None
    /\ fpc = "idle" /\ pc = "idle"
    /\ FreshFrame
    /\ ret = None /\ err = "none"
    /\ svdTotal = 0 /\ calls = 0

FlipNext == FlipStep \/ FlipReturn

FlipSpec == FlipInit /\ [][FlipNext]_vars

\* ------------------------------------------------------------------------
\* goodness_of_fit(kers, lams, labels, ti): the split into training and
\* validation rows
\* ------------------------------------------------------------------------

\* X1 = X[ii[0:2000], :] -- the stop of the training slice.
TrainStop == 2000

\* X2 = X[ii[2000:], :] -- the start of the validation slice.
ValidStart == 2000

\* The numbers of rows X may have: none, a few, and around the slice
\* bound.
RowCounts == {0, 1, 3, 1999, 2000, 2001, 2004}

\* np.random.permutation(n): the rotations of 0..n-1 by 0, 1, 2, 7 or 11 and
\* their reversals.
SplitPerms(n) ==
    {[k \in 1..n |-> ((IF rev THEN n - k ELSE k - 1) + rot) % n] :
        rot \in {0, 1, 2, 7, 11}, rev \in BOOLEAN}

\* w[lo:hi]: the entries at the 0-based positions lo, ..., hi-1 that exist.
Slice(w, lo, hi) == SubSeq(w, lo + 1, IF hi < Len(w) THEN hi ELSE Len(w))

\* w[lo:]
SliceFrom(w, lo) == SubSeq(w, lo + 1, Len(w))

\* m[idxs] for an array of 0-based indices.
Take(m, idxs) == [k \in 1..Len(idxs) |-> m[idxs[k] + 1]]

\* ii = np.random.permutation(X.shape[0])
GofPermute ==
    /\ mode = "gof"
    /\ gpc = "perm"
    /\ iiSplit' \in SplitPerms(Len(X))
    /\ gpc' = "train"
    /\ UNCHANGED <<ridgeVars, simVars, flipVars, geoVars, X, yobs, X1, y1, X2, y2>>

\* A validation slice that starts one position early: ii[1999:].
GofValidOverlap ==
    /\ mode = "gof"
    /\ gpc = "valid"
    /\ X2' = Take(X, SliceFrom(iiSplit, ValidStart - 1))
    /\ y2' = Take(yobs, SliceFrom(iiSplit, ValidStart - 1))
    /\ gpc' = "sweep"
    /\ UNCHANGED <<ridgeVars, simVars, flipVars, geoVars, X, yobs, iiSplit, X1, y1>>

\* X1 = X[ii[0:2000], :]; y1 = y[ii[0:2000]]
GofTrain ==
    /\ mode = "gof"
    /\ gpc = "train"
    /\ X1' = Take(X, Slice(iiSplit, 0, TrainStop))
    /\ y1' = Take(yobs, Slice(iiSplit, 0, TrainStop))
    /\ gpc' = "valid"
    /\ UNCHANGED <<ridgeVars, simVars, flipVars, geoVars, X, yobs, iiSplit, X2, y2>>

\* X2 = X[ii[2000:], :]; y2 = y[ii[2000:]].  The sweep over the kernels
\* that follows reads X1, y1, X2 and y2 and writes none of them.
GofValid ==
    /\ mode = "gof"
    /\ gpc = "valid"
    /\ X2' = Take(X, SliceFrom(iiSplit, ValidStart))
    /\ y2' = Take(yobs, SliceFrom(iiSplit, ValidStart))
    /\ gpc' = "sweep"
    /\ UNCHANGED <<ridgeVars, simVars, flipVars, geoVars, X, yobs, iiSplit, X1, y1>>

GofInit ==
    /\ mode = "gof"
    \* The global data: row r of X holds the value r, and y[r] is -r (rows
    \* and responses numbered from 0, as numpy does; the sequence holds row
    \* r at position r + 1).
    /\ \E n \in RowCounts :
           /\ X = [k \in 1..n |-> <<k - 1>>]
           /\ yobs = [k \in 1..n |-> -(k - 1)]
    /\ iiSplit = None
    /\ X1 = None /\ y1 = None /\ X2 = None /\ y2 = None
    /\ gpc = "perm"
    /\ NoGeo
    /\ sim = None
    /\ xc = None /\ yc = None /\ fj = 0 /\ fret = None
    /\ gx = None /\ gy = None /\ randomize = FALSE
    /\ idx = 0 /\ stat = None /\ plotted = None
    /\ x = None /\ y = None /\ r2 = None /\ fpen = None
    /\ fpc = "idle" /\ pc = "idle"
    /\ FreshFrame
    /\ ret = None /\ err = "none"
    /\ svdTotal = 0 /\ calls = 0

GofNext == GofPermute \/ GofTrain \/ GofValid

GofSpec == GofInit /\ [][GofNext]_vars

\* ------------------------------------------------------------------------
\* The plants notebook: the geophysical constants and the L-function cell
\* ------------------------------------------------------------------------

\* Python's ^ on non-negative integers: bitwise exclusive or.
RECURSIVE BitXor(_, _)
BitXor(m, n) ==
    IF m = 0 THEN n
    ELSE IF n = 0 THEN m
    ELSE 2 * BitXor(m \div 2, n \div 2) + (((m % 2) + (n % 2)) % 2)

\* The grid dgr (two of its points: 1 and 100 km).
Dgr == <<One, Num(100)>>

\* np.random.choice(k, 5): five row numbers drawn with replacement.
Choices(k) == [1..5 -> 0..(k - 1)]

\* dgr - np.sqrt(land_area*dd["ecdf"].iloc[j] / np.pi), with np.pi to four
\* decimals.
LCurve(area, row) ==
    [g \in 1..Len(Dgr) |->
        FSub(Dgr[g], FSqrt(FDiv(FMul(Num(area), row[g]), Fin(31416))))]

\* earth_radius_m = 6371000; earth_radius_km = earth_radius_m / 1000;
\* earth_circumference_km = 40075; land_area = 149 * 10^6
GeoConstants ==
    /\ mode = "geo"
    /\ geo = None
    /\ geo' = [earth_radius_m |-> 6371000,
               earth_radius_km |-> 6371000 \div 1000,
               earth_circumference_km |-> 40075]
    \* Python's * binds tighter than ^ (xor): (149 * 10) ^ 6.
    /\ land_area' = BitXor(149 * 10, 6)
    /\ UNCHANGED <<ridgeVars, simVars, flipVars, splitVars, ecdf, jdraw,
                   lpos, lcurve>>

\* for j in np.random.choice(dd.shape[0], 5): the draw.
LDraw ==
    /\ mode = "geo"
    /\ geo # None
    /\ jdraw = None
    /\ jdraw' \in Choices(Len(ecdf))
    /\ UNCHANGED <<ridgeVars, simVars, flipVars, splitVars, land_area, geo,
                   ecdf, lpos, lcurve>>

\* One pass of the loop: plt.plot(dgr, dgr - np.sqrt(...), "-").
LPlot ==
    /\ mode = "geo"
    /\ jdraw # None
    /\ lpos < 5
    /\ lcurve' = LCurve(land_area, ecdf[jdraw[lpos + 1] + 1])
    /\ lpos' = lpos + 1
    /\ UNCHANGED <<ridgeVars, simVars, flipVars, splitVars, land_area, geo,
                   ecdf, jdraw>>

GeoInit ==
    /\ mode = "geo"
    /\ land_area = None /\ geo = None
    \* dd["ecdf"]: for three species, the fraction of pairwise distances
    \* below each grid point.
    /\ ecdf = << <<Zero, Fin(Scale \div 2)>>, <<Fin(Scale \div 4), One>>,
                 <<Fin(Scale \div 2), Fin(Scale \div 2)>> >>
    /\ jdraw = None /\ lpos = 0 /\ lcurve = None
    /\ NoSplit
    /\ sim = None
    /\ xc = None /\ yc = None /\ fj = 0 /\ fret = None
    /\ gx = None /\ gy = None /\ randomize = FALSE
    /\ idx = 0 /\ stat = None /\ plotted = None
    /\ x = None /\ y = None /\ r2 = None /\ fpen = None
    /\ fpc = "idle" /\ pc = "idle"
    /\ FreshFrame
    /\ ret = None /\ err = "none"
    /\ svdTotal = 0 /\ calls = 0

GeoNext == GeoConstants \/ LDraw \/ LPlot

GeoSpec == GeoInit /\ [][GeoNext]_vars

\* ------------------------------------------------------------------------
\* Properties
\* ------------------------------------------------------------------------

\* Positions of a tuneridge call that has neither returned nor raised.
Running == {"hyper", "svd", "first", "loop", "return"}

\* Positions of a tuneridge call past its factorization.
Factorized == {"first", "loop", "return", "done"}

\* 0 < r2 < 1
ValidR2(r) == r.v.k = "fin" /\ 0 < r.v.v /\ r.v.v < Scale

\* Every column of m and the vector yv have mean zero.
Centered(m, yv) ==
    /\ \A j \in 1..NCols(m) : SumSeq(Col(m, j)) = Zero
    /\ SumSeq(yv) = Zero

\* A non-negative number: finite and >= 0.
NonNegative(f) == f.k = "fin" /\ f.v >= 0

\* Some singular value of the design is exactly 0.
RankDeficient(m) == \E j \in 1..Len(SVD(m).s) : SVD(m).s[j] = Zero

\* The minimum-norm least-squares solution: weight 1/s on every direction
\* with s > 0 and weight 0 on every direction with s = 0.
MinNorm(m, yv) ==
    LET d == SVD(m)
        uty == MatTVec(d.u, yv)
        w == [j \in 1..Len(d.s) |->
                IF d.s[j] = Zero THEN Zero
                ELSE FMul(uty[j], FDiv(One, d.s[j]))]
    IN  MatTVec(d.vt, w)

(* C1: when the convergence check passes, tuneridge returns the refit      *)
(* bhat1 computed at the returned (just updated) lam, not the previous     *)
(* iterate bhat.                                                           *)
C1_ReturnsRefit ==
    (pc = "done" /\ outcome = "CONVERGED") =>
        /\ ret.bhat = bhat1
        /\ ret.bhat = Fit(ret.lam)

(* C2: every call of tuneridge ends after at most 100 passes of the loop   *)
(* and at most 101 ridge solves, whatever the iterates are (nan and inf    *)
(* included): the loop index never passes 100, one solve precedes the loop *)
(* and each pass makes one, and once 100 passes are done the loop is left. *)
C2_BoundedPasses ==
    /\ itr <= MaxIter
    /\ fitCount <= MaxIter + 1
    /\ (pc = "loop" => fitCount = itr + 1)
    /\ (pc = "loop" /\ itr >= MaxIter => ~LoopContinues(itr))
    /\ (pc \in {"return", "done"} =>
          \/ outcome = "CONVERGED" /\ fitCount = itr + 2
          \/ outcome = "EXHAUSTED" /\ fitCount = MaxIter + 1)

C2_Witness ==
    /\ pc = "done"
    /\ fitCount = MaxIter + 1
    /\ IsNaN(lam)

(* C3: when all 100 passes run without the convergence check passing, no   *)
(* error is raised and the triple returned is the last one computed: the   *)
(* coefficients are the refit of the 100th pass, at the returned lam.      *)
C3_ExhaustedReturnsLast ==
    (pc = "done" /\ outcome = "EXHAUSTED") =>
        /\ err = "none"
        /\ fitCount = MaxIter + 1
        /\ ret = [bhat |-> bhat1, lam |-> lam, sigma2 |-> sigma2]
        /\ ret.bhat = Fit(ret.lam)

C3_Witness ==
    /\ pc = "done"
    /\ outcome = "EXHAUSTED"
    /\ itr = MaxIter
    /\ ret.bhat = bhat1

(* C4: tuneridge called with an r2 that is not strictly between 0 and 1    *)
(* fails before any computation: it never reaches the factorization, the   *)
(* loop or a return.                                                       *)
C4_RejectsBadR2 ==
    (mode = "tune" /\ ~ValidR2(r2)) =>
        /\ pc \in {"hyper", "raised"}
        /\ svdCount = 0
        /\ fitCount = 0

(* C5: the value returned by a tuning run tells the caller whether the run *)
(* converged or exhausted its passes: it carries a converged flag or an    *)
(* iteration count.                                                        *)
C5_ResultTellsOutcome ==
    pc = "done" =>
        \/ "converged" \in DOMAIN ret
        \/ "itr" \in DOMAIN ret

(* C6: tuneridge called with a design matrix that has more columns than    *)
(* rows fails before any factorization or iteration.                       *)
C6_RejectsWide ==
    (mode = "tune" /\ NCols(x) > NRows(x)) =>
        /\ pc \in {"hyper", "raised"}
        /\ svdCount = 0
        /\ fitCount = 0

(* C7: a ridge solve at penalty 0 on a design with a singular value 0      *)
(* gives that direction the weight 0, so the result is the finite          *)
(* minimum-norm least-squares solution; this holds of ridge and of the     *)
(* closure fit of tuneridge.                                               *)
C7_ZeroWeight ==
    /\ (mode = "ridge" /\ fpc = "called" /\ fpen = Zero /\ RankDeficient(x)) =>
          /\ AllFinite(ret.b)
          /\ ret.b = MinNorm(x, y)
    /\ (mode = "tune" /\ pc \in {"loop", "return"} /\ fitCount > 1
          /\ lam = Zero /\ RankDeficient(x)) =>
          /\ AllFinite(bhat1)
          /\ bhat1 = MinNorm(x, y)

(* C8: for every finite centered (x, y) with n >= p >= 1 and 0 < r2 < 1,   *)
(* lam and sigma2 are non-negative numbers after every pass of the loop    *)
(* and in the result.                                                      *)
C8_NonNegative ==
    (/\ mode = "tune"
     /\ pc \in {"loop", "return", "done"}
     /\ fitCount > 1
     /\ ValidR2(r2)
     /\ NRows(x) >= NCols(x)
     /\ Centered(x, y)) =>
        /\ NonNegative(lam)
        /\ NonNegative(sigma2)
        /\ (pc = "done" => NonNegative(ret.lam) /\ NonNegative(ret.sigma2))

(* C9: within one call of tuneridge x is factorized exactly once, before   *)
(* the loop; no ridge solve of the call factorizes it again, and all of    *)
(* them read that one (u, s, vt).                                          *)
C9_FactorizedOnce ==
    /\ (pc \in {"hyper", "svd", "raised"} => svdCount = 0)
    /\ (pc \in Factorized => svdCount = 1 /\ dec = SVD(x))

C9_Witness ==
    /\ pc = "done"
    /\ fitCount > 2
    /\ svdCount = 1

C11_SolveIsPure ==
    (pc \in {"loop", "return", "done"}) =>
        LET fresh == SVD(x)
        IN  /\ dec = fresh
            /\ Fit(LamInit) = Solve(fresh, y, LamInit)
            /\ (fitCount = 1 => bhat = Solve(fresh, y, LamInit))
            /\ (fitCount > 1 => bhat1 = Solve(fresh, y, lam))

C11_Witness ==
    /\ pc = "done"
    /\ fitCount > 3
    /\ AllFinite(bhat1)
    /\ lam # LamInit
    /\ bhat1 = Solve(SVD(x), y, lam)

(* C12: a bare ridge solve is never made at a negative penalty: ridge      *)
(* called with f < 0 raises before it computes anything and returns no     *)
(* coefficients.                                                           *)
C12_RejectsNegative ==
    (mode = "ridge" /\ fpc = "called" /\ fpen.k = "fin" /\ fpen.v < 0) =>
        /\ err # "none"
        /\ "b" \notin DOMAIN ret

Terminal == {"CONVERGED", "EXHAUSTED"}

\* One step of a run (no new call of tuneridge is made by the step).
RunStep ==
    /\ (outcome = "ITERATING" =>
          \/ /\ outcome' = "ITERATING"
             /\ (itr' # itr =>
                   /\ itr < MaxIter
                   /\ itr' = itr + 1
                   /\ ~Converged(bhat1', bhat))
          \/ /\ outcome' = "CONVERGED"
             /\ itr < MaxIter
             /\ Converged(bhat1', bhat)
          \/ /\ outcome' = "EXHAUSTED"
             /\ itr = MaxIter)
    /\ (outcome \in Terminal =>
          /\ outcome' = outcome
          /\ bhat' = bhat /\ bhat1' = bhat1
          /\ lam' = lam /\ sigma2' = sigma2)

(* C14: a tuning run starts in ITERATING; a step from ITERATING stays      *)
(* there (tolerance not met, fewer than 100 passes done), moves to         *)
(* CONVERGED (tolerance met) or to EXHAUSTED (100 passes done); the run    *)
(* has left the loop exactly when it is in a terminal state, and once      *)
(* terminal it changes neither its state nor bhat, bhat1, lam and sigma2.  *)
C14_StateMachine ==
    /\ outcome = "ITERATING"
    /\ [](/\ (pc \in {"return", "done"} => outcome \in Terminal)
          /\ (pc \in {"hyper", "svd", "first", "loop", "raised"} =>
                outcome = "ITERATING"))
    /\ [][calls' = calls => RunStep]_vars

C14_Witness ==
    /\ pc = "done"
    /\ outcome = "CONVERGED"
    /\ itr >= 1
    /\ ret.lam = lam

(* C15: for a fixed design and response the norm of the ridge solution     *)
(* does not grow with the penalty: whenever ridge has been called at a     *)
(* penalty f >= 0, the solve at any penalty f2 >= f has a norm that is at  *)
(* most the norm of the coefficients returned.                             *)
C15_NormNonIncreasing ==
    (mode = "ridge" /\ fpc = "called" /\ NonNegative(fpen)) =>
        \A f2 \in Penalties :
            (NonNegative(f2) /\ fpen.v <= f2.v) =>
                FLe(SumSq(Ridge(x, y, f2)), SumSq(ret.b))

\* Every singular value of the design is a positive number.
FullColumnRank(m) ==
    \A j \in 1..Len(SVD(m).s) : IsFin(SVD(m).s[j]) /\ SVD(m).s[j].v > 0

\* np.dot(w1, w2)
Dot(w1, w2) == SumSeq([i \in 1..Len(w1) |-> FMul(w1[i], w2[i])])

\* The ordinary-least-squares solution by the normal equations
\* (x.T x) b = x.T y, for a design with mutually orthogonal columns: x.T x is
\* diagonal and b[j] = (column j . y) / (column j . column j).
Ols(m, yv) ==
    [j \in 1..NCols(m) |-> FDiv(Dot(Col(m, j), yv), SumSq(Col(m, j)))]

\* Equal within floating-point tolerance: finite, and no coordinate differs
\* by more than a thousandth.
Close(w1, w2) ==
    /\ Len(w1) = Len(w2)
    /\ AllFinite(w1) /\ AllFinite(w2)
    /\ \A i \in 1..Len(w1) : AbsInt(w1[i].v - w2[i].v) <= Scale \div 1000

(* C16: on a design of full column rank with p <= n, ridge at penalty 0    *)
(* returns the ordinary-least-squares solution (within floating-point      *)
(* tolerance): every weight s/(s**2 + 0) is 1/s.                           *)
C16_OlsAtZero ==
    (/\ mode = "ridge" /\ fpc = "called" /\ fpen = Zero
     /\ NCols(x) <= NRows(x)
     /\ FullColumnRank(x)) =>
        /\ Close(ret.b, Ols(x, y))
        /\ \A j \in 1..NCols(x) :
              Close(<<Shrink(SVD(x).s, fpen)[j]>>,
                    <<FDiv(One, SVD(x).s[j])>>)

C16_Witness ==
    /\ mode = "ridge" /\ fpc = "called" /\ fpen = Zero
    /\ NCols(x) = 2
    /\ SVD(x).s = <<Num(2), One>>
    /\ ret.b = Ols(x, y)
    /\ \A j \in 1..2 : ret.b[j] # Zero

\* m.T m, the Gram matrix of a design.
Gram(m) == [i \in 1..NCols(m) |-> MatTVec(m, Col(m, i))]

\* significance(bv, l, s2, g): the statistic bv . V^-1 bv with
\* V = s2 * H^-1 g H^-1 and H = g + l I, as a function of its four
\* arguments alone (g diagonal).
Significance(bv, l, s2, g) ==
    LET k == Len(g)
        h == [i \in 1..k |-> [j \in 1..k |-> FAdd(g[i][j], FMul(l, Eye(k)[i][j]))]]
        inner == SolveDiag(h, Transpose(SolveDiag(h, g)))
        vm == [i \in 1..k |-> [j \in 1..k |-> FMul(s2, inner[i][j])]]
        sol == [i \in 1..Len(bv) |-> FDiv(bv[i], vm[i][i])]
    IN  SumSeq([i \in 1..Len(bv) |-> FMul(bv[i], sol[i])])

(* C18: the statistic computed for a fit is a function of (b, lam, s2) and *)
(* of the Gram matrix of the design that was fitted, and of nothing else:  *)
(* whenever fit has computed a statistic for the run that just returned,   *)
(* it is the significance of that run's result under the Gram matrix of    *)
(* the x that fit was called on.                                           *)
C18_SignificanceStateless ==
    (mode = "fit" /\ fpc \in {"call", "done"} /\ idx > 0) =>
        /\ stat.df = NCols(x)
        /\ stat.cs = Significance(ret.bhat, ret.lam, ret.sigma2, Gram(x))

\* fit has not bound its arguments yet.
Unbound == mode = "fit" /\ fpc = "enter"

\* yv holds the entries of w in some order.
PermutationOf(yv, w) ==
    \E ii \in Perms(Len(w)) : yv = [i \in 1..Len(w) |-> w[ii[i]]]

(* C17: no step of tuneridge, ridge or fit writes to the caller's design   *)
(* matrix or response, on any path: the arrays the caller owns (the        *)
(* globals, and the x and y passed to tuneridge and ridge) never change,   *)
(* and in fit the permuted response is a separate array (the local y),     *)
(* the caller's y staying as it was.                                       *)
C17_InputsUnchanged ==
    /\ [](mode \in {"tune", "ridge"} => x = gx /\ y = gy)
    /\ []((mode = "fit" /\ fpc # "enter") =>
             /\ x \in FitArgs(gx)
             /\ PermutationOf(y, gy)
             /\ (~randomize => y = gy))
    /\ [][/\ gx' = gx
          /\ gy' = gy
          /\ (~Unbound => x' = x /\ y' = y)]_vars

C17_Witness ==
    /\ mode = "fit"
    /\ randomize
    /\ fpc = "done"
    /\ y # gy
    /\ PermutationOf(y, gy)

\* The determinant of a matrix of order 1 or 2.
Det(h) ==
    IF Len(h) = 1 THEN h[1][1]
    ELSE FSub(FMul(h[1][1], h[2][2]), FMul(h[1][2], h[2][1]))

\* h is singular: its determinant is 0.
NonInvertible(h) == Det(h) = Zero

(* C19: when H = xtx + lam*I is singular (lam = 0 and xtx rank-deficient), *)
(* the significance computation raises LinAlgError at the first solve and  *)
(* produces no statistic, p-value or plot.                                 *)
C19_SingularRaises ==
    (mode = "fit" /\ pc = "idle" /\ NonInvertible(HMat(ret.lam))) =>
        /\ err = "LinAlgError"
        /\ fpc = "raised"
        /\ stat = None
        /\ plotted = None

C19_Witness ==
    /\ mode = "fit"
    /\ pc = "idle"
    /\ fpc = "raised"
    /\ err = "LinAlgError"
    /\ ret.lam = Zero
    /\ NonInvertible(HMat(ret.lam))
    /\ \E j \in 1..Len(ret.bhat) : ret.bhat[j] # Zero

\* The loop of tuneridge on (m, yv, r) from pass i on, as a function of its
\* arguments alone: d is the factorization of m, bh the coefficients and l
\* the penalty the pass starts from, s2 the variance last computed.
RECURSIVE RunFrom(_, _, _, _, _, _, _, _)
RunFrom(d, m, yv, r, bh, l, s2, i) ==
    IF i >= MaxIter THEN [bhat |-> bh, lam |-> l, sigma2 |-> s2]
    ELSE LET bss == SumSq(bh)
             rss == SumSq(VecSub(yv, MatVec(m, bh)))
             s2n == FDiv(FAdd(rss, FMul(l, bss)),
                         Num(NRows(m) + NCols(m) + 2))
             ln == FDiv(FSub(FAdd(Num(NCols(m)),
                                  FMul(Num(2), HyperA(NCols(m)))), Num(2)),
                        FAdd(FDiv(bss, s2n), FMul(Num(2), HyperB(r))))
             b1 == Solve(d, yv, ln)
         IN  IF Converged(b1, bh)
             THEN [bhat |-> bh, lam |-> ln, sigma2 |-> s2n]
             ELSE RunFrom(d, m, yv, r, b1, ln, s2n, i + 1)

\* The result of a run on (m, yv, r) that starts from lam = 1 with nothing
\* left over from any other run.
FreshRun(m, yv, r) ==
    LET d == SVD(m)
    IN  RunFrom(d, m, yv, r, Solve(d, yv, One), One, None, 0)

C22_MajorityPositive ==
    (mode = "flip" /\ fret # None) =>
        \A c \in 1..NCols(xc) :
            CountPos(Col(fret.xc, c)) * NRows(fret.yc)
                + CountPos(Col(fret.yc, c)) * NRows(fret.xc)
                    >= NRows(fret.xc) * NRows(fret.yc)

(* C23: every pass of the loop computes rss and bss from the current bhat, *)
(* then sigma2 = (rss + lam*bss)/(n + p + 2) with the lam at which that    *)
(* bhat was fitted, then lam = (p + 2a - 2)/(bss/sigma2 + 2b) with the     *)
(* fresh sigma2, then the refit at the new lam; a = p/2 and                *)
(* b = 1/sqrt(1/r2 - 1) do not change during the loop.                     *)
C23_UpdateOrder ==
    /\ [](pc = "loop" =>
             /\ a = Fin(NCols(x) * (Scale \div 2))
             /\ b = FDiv(One, FSqrt(FSub(FDiv(One, r2.v), One))))
    /\ [][(pc = "loop" /\ fitCount' = fitCount + 1) =>
             LET n == NRows(x)
                 p == NCols(x)
                 rss == SumSq(VecSub(y, MatVec(x, bhat)))
                 bss == SumSq(bhat)
                 s2 == FDiv(FAdd(rss, FMul(lam, bss)), Num(n + p + 2))
                 l1 == FDiv(FSub(FAdd(Num(p), FMul(Num(2), a)), Num(2)),
                            FAdd(FDiv(bss, s2), FMul(Num(2), b)))
             IN  /\ sigma2' = s2
                 /\ lam' = l1
                 /\ bhat1' = Solve(dec, y, l1)
                 /\ a' = a
                 /\ b' = b]_vars

C23_Witness ==
    /\ mode = "tune"
    /\ pc = "loop"
    /\ fitCount >= 3
    /\ IsFin(lam) /\ lam # One /\ FLt(Zero, lam)
    /\ IsFin(sigma2) /\ FLt(Zero, sigma2)
    /\ bhat = bhat1

\* One iteration of the specified loop, entered at the penalty lam: step a
\* solves at lam, steps b to d update sigma2 and the penalty from that
\* solution, step e solves again at the updated penalty, step f decides.
SpecIteration ==
    LET ba == Solve(dec, y, lam)
        rss == SumSq(VecSub(y, MatVec(x, ba)))
        bss == SumSq(ba)
        s2 == FDiv(FAdd(rss, FMul(lam, bss)),
                   Num(NRows(x) + NCols(x) + 2))
        l1 == FDiv(FSub(FAdd(Num(NCols(x)), FMul(Num(2), a)), Num(2)),
                   FAdd(FDiv(bss, s2), FMul(Num(2), b)))
        be == Solve(dec, y, l1)
    IN  [bhat |-> ba, bhat1 |-> be, lam |-> l1, sigma2 |-> s2,
         stop |-> Converged(be, ba)]

(* C24: the loop of the code (one solve at lam = 1 before the loop, one    *)
(* solve per pass, carried over as the next pass's bhat) goes through the  *)
(* same (bhat, bhat1, lam, sigma2) and takes the same convergence          *)
(* decisions as the loop that solves twice per iteration, at the entering  *)
(* and at the updated penalty: the bhat a pass starts from is the solve at *)
(* the entering lam, and the pass ends as the two-solve iteration does.    *)
C24_CarriedEqualsResolved ==
    /\ [](pc = "loop" => bhat = Solve(dec, y, lam))
    /\ [][(pc = "loop" /\ fitCount' = fitCount + 1) =>
             LET si == SpecIteration
             IN  /\ bhat = si.bhat
                 /\ bhat1' = si.bhat1
                 /\ lam' = si.lam
                 /\ sigma2' = si.sigma2
                 /\ (pc' = "return") = si.stop
                 /\ (pc' = "loop") = ~si.stop]_vars

C24_Witness ==
    /\ mode = "tune"
    /\ pc = "loop"
    /\ fitCount >= 3
    /\ AllFinite(bhat)
    /\ lam # One
    /\ bhat = Solve(dec, y, lam)
    /\ bhat # Solve(dec, y, One)

(* C25: ridge(x, y, f) and the closure fit(f) of tuneridge on the same     *)
(* (x, y) compute the same coefficients for every penalty f, so the        *)
(* coefficients tuneridge returns are those of a bare ridge solve at the   *)
(* penalty it returns.                                                     *)
C25_TunedReproducedByRidge ==
    /\ (pc \in {"loop", "return", "done"} =>
           \A f \in Penalties \cup {lam} : Fit(f) = Ridge(x, y, f))
    /\ (pc = "done" => ret.bhat = Ridge(x, y, ret.lam))

(* C26: for a finite centered input and 0 < r2 < 1, whenever the penalty   *)
(* update has been executed the sigma2 it divided by is strictly positive, *)
(* and lam and the refit are finite: no response, the all-zero one         *)
(* included, drives the loop to exhaustion with nan outputs.               *)
C26_VariancePositive ==
    (/\ pc \in {"loop", "return", "done"}
     /\ fitCount > 1
     /\ ValidR2(r2)
     /\ FiniteMatrix(x) /\ AllFinite(y)
     /\ Centered(x, y)) =>
        /\ FLt(Zero, sigma2)
        /\ IsFin(lam)
        /\ AllFinite(bhat1)
        /\ outcome # "EXHAUSTED"

(* C27: a = p/2 makes the numerator of the penalty update                  *)
(* p + 2a - 2 = 2(p - 1).  With p >= 2 every updated lam is strictly       *)
(* positive when the sigma2 it was computed from is finite and positive    *)
(* (and the guess is valid); with p = 1 the lam is exactly 0 after the     *)
(* first update and stays 0, and the coefficients returned are those of    *)
(* the unpenalized fit, whatever r2.                                       *)
C27_PenaltyNumerator ==
    (pc \in {"loop", "return", "done"} /\ fitCount > 1) =>
        /\ FSub(FAdd(Num(NCols(x)), FMul(Num(2), a)), Num(2))
              = Num(2 * (NCols(x) - 1))
        /\ (NCols(x) >= 2 /\ IsFin(sigma2) /\ FLt(Zero, sigma2)
              /\ ValidR2(r2) /\ IsFin(lam)) => FLt(Zero, lam)
        /\ (NCols(x) = 1 /\ IsFin(sigma2) /\ FLt(Zero, sigma2)
              /\ ValidR2(r2)) => lam = Zero
        /\ (NCols(x) = 1 /\ IsFin(sigma2) /\ FLt(Zero, sigma2)
              /\ ValidR2(r2) /\ pc = "done") => ret.bhat = Solve(dec, y, Zero)

\* w1 and w2 have the same length and hold every value the same number of
\* times.
SameMultiset(w1, w2) ==
    /\ Len(w1) = Len(w2)
    /\ \A i \in 1..Len(w1) :
          Cardinality({k \in 1..Len(w1) : w1[k] = w1[i]})
              = Cardinality({k \in 1..Len(w2) : w2[k] = w1[i]})

(* C28: in fit(x, y, randomize=True) the response that is tuned against is *)
(* a rearrangement of the caller's y (same length, same values as often),  *)
(* drawn once before the loop over r2: it and the design matrix stay the   *)
(* same for all six guesses, and the design is the one passed.             *)
C28_PermutedOnce ==
    /\ []((mode = "fit" /\ randomize /\ fpc # "enter") =>
             /\ SameMultiset(y, gy)
             /\ x \in FitArgs(gx)
             /\ (fpc = "done" => idx = Len(R2List) /\ calls = Len(R2List)))
    /\ [][(mode = "fit" /\ randomize /\ fpc # "enter") =>
             (y' = y /\ x' = x)]_vars

C28_Witness ==
    /\ mode = "fit"
    /\ randomize
    /\ fpc = "call"
    /\ idx = Len(R2List)
    /\ SameMultiset(y, gy)
    /\ y # gy
    /\ plotted.r2 = R2List[Len(R2List)]

\* The row numbers held by the rows of m.
RowSet(m) == {m[k][1] : k \in 1..Len(m)}

(* C29: in goodness_of_fit the training rows (the rows at the first 2000   *)
(* indices of the permutation) and the validation rows (those at the       *)
(* remaining indices) have no row in common and together hold every row of *)
(* X exactly once; every response stays with its own row; this for every   *)
(* number of rows of X.                                                    *)
C29_SplitPartitions ==
    (mode = "gof" /\ gpc = "sweep") =>
        /\ RowSet(X1) \cap RowSet(X2) = {}
        /\ RowSet(X1) \cup RowSet(X2) = RowSet(X)
        /\ Cardinality(RowSet(X1)) = Len(X1)
        /\ Cardinality(RowSet(X2)) = Len(X2)
        /\ Len(X1) + Len(X2) = Len(X)
        /\ Len(y1) = Len(X1) /\ Len(y2) = Len(X2)
        /\ \A k \in 1..Len(X1) : y1[k] = yobs[X1[k][1] + 1]
        /\ \A k \in 1..Len(X2) : y2[k] = yobs[X2[k][1] + 1]

C29_Witness ==
    /\ mode = "gof"
    /\ gpc = "sweep"
    /\ Len(X) = 2004
    /\ Len(X1) = 2000
    /\ Len(X2) = 4
    /\ X1[1] # X[1]
    /\ y2[1] = yobs[X2[1][1] + 1]

(* C30: once the constants are bound, land_area, the area that scales the  *)
(* eCDF of pairwise distances into the K- and L-function, is 149 * 10^6    *)
(* with ^ read as a power: 149 million, the land area of the Earth.        *)
C30_LandArea ==
    (mode = "geo" /\ geo # None) => land_area = 149 * 10^6

====
